---- MODULE Spec2Model ----
(***************************************************************************)
(* Model of the visual navigation loop of AutoSkyProject:                  *)
(*   core/navigator.py         SkyNavigator                                *)
(*   core/input_controller.py  InputController                             *)
(*   main.py                   main_loop, _initial_calibration             *)
(*   gui_launcher.py           AutoSkyGUI (start, stop, worker thread)     *)
(*                                                                         *)
(* Indices are those of the source (0-based); waypoints is a TLA+          *)
(* sequence, so the waypoint at index i is waypoints[i + 1].               *)
(* A similarity is an exact fraction [num, den]; a threshold likewise.     *)
(***************************************************************************)
EXTENDS Integers, Sequences, FiniteSets, TLC

\* ------------------------------------------------------------------ bounds
MaxRoute == 2        \* longest route drawn in Init
MaxMisses == 13      \* cap on consecutive_misses (unbounded in the source)
MaxDispatch == 2     \* cap on the per-waypoint dispatch counter (history)
MaxThreads == 3      \* worker threads the GUI starts in one behaviour
MaxAfter == 2        \* cap on the root.after callbacks pending at once

\* ------------------------------------------------------- program constants
blind_threshold == 10
deadzone == 15
MaxMove == 50
MinDescriptors == 5
MinGoodMatches == 4
TopPercent == 15
DistanceCeiling == 60
Normalizer == 80
SearchRotation == 30
MaxSearchAttempts == 12
AlignTolerance == 10

None == -1
Absent == [num |-> 0, den |-> 0]                    \* no match_threshold key
DefaultThreshold == [num |-> 6, den |-> 10]         \* .get(..., 0.6)
CalibrationThreshold == [num |-> 6, den |-> 10]     \* score > 0.6
MissFloor == [num |-> 2, den |-> 10]                \* similarity < 0.2
Zero == [num |-> 0, den |-> 1]

\* ---------------------------------------------------------------- helpers
Abs(x) == IF x < 0 THEN -x ELSE x
Min(a, b) == IF a < b THEN a ELSE b
Max(a, b) == IF a > b THEN a ELSE b

\* a > b and a < b on exact fractions with positive denominators
Greater(a, b) == a.num * b.den > b.num * a.den
Less(a, b) == a.num * b.den < b.num * a.den

\* Python int(x * 0.5): truncation toward zero
TruncHalf(x) == IF x >= 0 THEN x \div 2 ELSE -((-x) \div 2)

RECURSIVE SumSeq(_)
SumSeq(s) == IF s = <<>> THEN 0 ELSE Head(s) + SumSeq(Tail(s))

RECURSIVE Rep(_, _)
Rep(n, d) == IF n = 0 THEN <<>> ELSE <<d>> \o Rep(n - 1, d)

\* sorted(matches, key=distance): stable insertion sort, ascending
RECURSIVE Insert(_, _)
Insert(x, s) ==
    IF s = <<>> THEN <<x>>
    ELSE IF x.distance < Head(s).distance THEN <<x>> \o s
    ELSE <<Head(s)>> \o Insert(x, Tail(s))

RECURSIVE Sorted(_)
Sorted(s) ==
    IF s = <<>> THEN <<>>
    ELSE Insert(s[Len(s)], Sorted(SubSeq(s, 1, Len(s) - 1)))

\* [m for m in seq if m.distance < 60]
RECURSIVE BelowCeiling(_)
BelowCeiling(s) ==
    IF s = <<>> THEN <<>>
    ELSE IF Head(s).distance < DistanceCeiling
         THEN <<Head(s)>> \o BelowCeiling(Tail(s))
         ELSE BelowCeiling(Tail(s))

\* variant: at least 10 matches are taken before the distance filter
GoodMatches_WithFloor(matches) ==
    LET sorted == Sorted(matches)
        k == Max(10, (Len(sorted) * TopPercent) \div 100)
    IN  BelowCeiling(SubSeq(sorted, 1, Min(k, Len(sorted))))

\* matches[:int(len(matches)*0.15)] filtered by distance < 60
GoodMatches(matches) ==
    LET sorted == Sorted(matches)
        k == (Len(sorted) * TopPercent) \div 100
    IN  BelowCeiling(SubSeq(sorted, 1, k))

\* ------------------------------------------------------------------ inputs
\* A frame as the matcher sees it against the cached target: the number of
\* descriptors extracted from the screen (0 stands for screen_des None) and
\* the cross-checked matches, each with its Hamming distance and the x
\* coordinates of its target keypoint (src) and screen keypoint (dst).
\* Every match of a frame is shifted by the same dx, so the difference of
\* the two centroids is the integer dx.
MkFrame(des, dists, dx) ==
    [des |-> des,
     matches |-> [i \in 1..Len(dists) |->
                    [distance |-> dists[i], src |-> 10 * i, dst |-> 10 * i + dx]]]

UnmatchedFrames ==
    { MkFrame(0, <<>>, 0),                              \* no descriptors at all
      MkFrame(4, Rep(4, 10), 0),                        \* fewer than 5 descriptors
      MkFrame(30, Rep(20, 10), 0),                      \* top 15% of 20 is 3
      MkFrame(40, Rep(37, 70) \o Rep(3, 20), 0) }       \* ceiling leaves 3

\* 40 matches of which the best 6 have distance d (similarity 1 - d/80).
Best6(d, dx) == MkFrame(40, Rep(34, 70) \o Rep(6, d), dx)

MatchedFrames ==
    { Best6(20, 0), Best6(20, 12), Best6(20, -120),     \* 0.75
      Best6(28, 10), Best6(28, 120),                    \* 0.65
      Best6(32, 0),                                     \* 0.6 exactly
      Best6(59, 0),                                     \* 0.2625, the lowest
      Best6(40, 12), Best6(40, -15),                    \* 0.5
      MkFrame(27, Rep(23, 70) \o Rep(4, 24), 0),        \* 0.7 exactly, 4 kept
      MkFrame(40, Rep(35, 70) \o Rep(5, 20), 15) }      \* 0.75, ceiling leaves 5

Frames == UnmatchedFrames \cup MatchedFrames

\* One record of waypoints.json; image_exists is os.path.exists(img_path).
Wp(action, threshold, exists) ==
    [action |-> action, match_threshold |-> threshold, image_exists |-> exists]

Th07 == [num |-> 7, den |-> 10]

WaypointRecords ==
    { Wp("walk", Absent, TRUE), Wp("jump", Th07, TRUE),
      Wp("interact", Absent, TRUE), Wp("fly_start", Th07, TRUE),
      Wp("fly_start", Absent, FALSE) }

RECURSIVE SeqsUpTo(_, _)
SeqsUpTo(S, n) ==
    IF n = 0 THEN {<<>>}
    ELSE LET shorter == SeqsUpTo(S, n - 1)
         IN  shorter \cup { Append(r, w) : r \in { q \in shorter : Len(q) = n - 1 }, w \in S }

Routes == SeqsUpTo(WaypointRecords, MaxRoute)

\* The route file on disk: absent, present but not valid JSON, or a route.
RouteFiles ==
    { [state |-> "absent", content |-> <<>>],
      [state |-> "unparseable", content |-> <<>>] }
    \cup { [state |-> "ok", content |-> r] : r \in Routes }

\* ------------------------------------------------------------ SkyNavigator
\* _load_json: an absent file gives [], a present one is parsed.
\* (json.load raising on an unparseable file is handled by the caller's
\* guard on route_file.state.)
_load_json(file) == IF file.state = "absent" THEN <<>> ELSE file.content

\* load_waypoint(index) on navigator fields nav = [waypoints, current_idx,
\* target_des]; target_des is the index of the waypoint whose image the cached
\* image/keypoints/descriptors were computed from, or None.
\* variant: the index is stored before the range check
load_waypoint_IndexFirst(nav, index) ==
    LET moved == [nav EXCEPT !.current_idx = index]
    IN  IF index >= Len(nav.waypoints)
        THEN [nav |-> moved, result |-> FALSE, complete |-> TRUE]
        ELSE IF ~nav.waypoints[index + 1].image_exists
             THEN [nav |-> moved, result |-> FALSE, complete |-> FALSE]
             ELSE [nav |-> [moved EXCEPT !.target_des = index],
                   result |-> TRUE, complete |-> FALSE]

load_waypoint(nav, index) ==
    IF index >= Len(nav.waypoints)
    THEN [nav |-> nav, result |-> FALSE, complete |-> TRUE]
    ELSE LET moved == [nav EXCEPT !.current_idx = index]
         IN  IF ~nav.waypoints[index + 1].image_exists
             THEN [nav |-> moved, result |-> FALSE, complete |-> FALSE]
             ELSE [nav |-> [moved EXCEPT !.target_des = index],
                   result |-> TRUE, complete |-> FALSE]

\* variant: the waypoint after the next is loaded
next_waypoint_SkipsOne(nav) == load_waypoint(nav, nav.current_idx + 2)

next_waypoint(nav) == load_waypoint(nav, nav.current_idx + 1)

\* Lines 114-147 of calculate_offset without the miss counter: the pure
\* estimate for a frame.
\* variant: 3 retained matches are enough for an estimate
Estimate_ThreeSuffice(frame) ==
    IF frame.des < MinDescriptors
    THEN [matched |-> FALSE, offset |-> 0, similarity |-> Zero]
    ELSE LET good == GoodMatches(frame.matches)
             k == Len(good)
             dist == SumSeq([i \in 1..k |-> good[i].distance])
             srcx == SumSeq([i \in 1..k |-> good[i].src])
             dstx == SumSeq([i \in 1..k |-> good[i].dst])
         IN  IF k < 3
             THEN [matched |-> FALSE, offset |-> 0, similarity |-> Zero]
             ELSE [matched |-> TRUE,
                   offset |-> (dstx - srcx) \div k,
                   similarity |->
                       IF dist >= Normalizer * k THEN Zero
                       ELSE [num |-> Normalizer * k - dist, den |-> Normalizer * k]]

Estimate(frame) ==
    IF frame.des < MinDescriptors
    THEN [matched |-> FALSE, offset |-> 0, similarity |-> Zero]
    ELSE LET good == GoodMatches(frame.matches)
             k == Len(good)
             dist == SumSeq([i \in 1..k |-> good[i].distance])
             srcx == SumSeq([i \in 1..k |-> good[i].src])
             dstx == SumSeq([i \in 1..k |-> good[i].dst])
         IN  IF k < MinGoodMatches
             THEN [matched |-> FALSE, offset |-> 0, similarity |-> Zero]
             ELSE [matched |-> TRUE,
                   offset |-> (dstx - srcx) \div k,
                   similarity |->
                       IF dist >= Normalizer * k THEN Zero
                       ELSE [num |-> Normalizer * k - dist, den |-> Normalizer * k]]

EstimateOf == [f \in Frames |-> Estimate(f)]

\* variant: a confident frame leaves the counter as it is
calculate_offset_NoReset(target, misses, frame) ==
    IF target = None
    THEN [offset |-> 0, similarity |-> Zero, misses |-> misses]
    ELSE LET e == EstimateOf[frame]
         IN  IF ~e.matched
             THEN [offset |-> 0, similarity |-> Zero, misses |-> misses + 1]
             ELSE [offset |-> e.offset, similarity |-> e.similarity,
                   misses |-> IF Less(e.similarity, MissFloor) THEN misses + 1
                              ELSE misses]

\* variant: the low-confidence floor is 0.3
calculate_offset_FloorThreeTenths(target, misses, frame) ==
    IF target = None
    THEN [offset |-> 0, similarity |-> Zero, misses |-> misses]
    ELSE LET e == EstimateOf[frame]
         IN  IF ~e.matched
             THEN [offset |-> 0, similarity |-> Zero, misses |-> misses + 1]
             ELSE [offset |-> e.offset, similarity |-> e.similarity,
                   misses |-> IF Less(e.similarity, [num |-> 3, den |-> 10])
                              THEN misses + 1 ELSE 0]

\* calculate_offset(screen_frame): the returned pair and the new counter.
calculate_offset(target, misses, frame) ==
    IF target = None
    THEN [offset |-> 0, similarity |-> Zero, misses |-> misses]
    ELSE LET e == EstimateOf[frame]
         IN  IF ~e.matched
             THEN [offset |-> 0, similarity |-> Zero, misses |-> misses + 1]
             ELSE [offset |-> e.offset, similarity |-> e.similarity,
                   misses |-> IF Less(e.similarity, MissFloor) THEN misses + 1 ELSE 0]

\* variant: blind already at the threshold
is_blind_AtThreshold(misses) == misses >= blind_threshold

is_blind(misses) == misses > blind_threshold

\* wp.get('match_threshold', 0.6)
get_match_threshold(wp) ==
    IF wp.match_threshold = Absent THEN DefaultThreshold ELSE wp.match_threshold

\* variant: a similarity equal to the threshold counts as an arrival
check_arrival_OrEqual(wps, idx, sim) ==
    ~Less(sim, get_match_threshold(wps[idx + 1]))

check_arrival(wps, idx, sim) == Greater(sim, get_match_threshold(wps[idx + 1]))

\* --------------------------------------------------------- InputController
Cmd(op, arg) == [op |-> op, arg |-> arg]

\* align_camera(offset_x): the call itself and, outside the dead zone, the
\* relative mouse move it makes.
align_camera(offset) ==
    <<Cmd("align_camera", offset)>> \o
    ( IF Abs(offset) < deadzone THEN <<>>
      ELSE <<Cmd("moveRel", Max(Min(TruncHalf(offset), MaxMove), -MaxMove))>> )

MovementKeys == {"w", "a", "s", "d"}

\* variant: the forward key is left out of the release
stop_all_movement_NoW(keys) == keys \ {"a", "s", "d"}

stop_all_movement(keys) == keys \ MovementKeys

HasOp(cs, op) == \E i \in 1..Len(cs) : cs[i].op = op

\* variant: the key is released again, as move_forward(duration) does
KeysAfter_Tap(keys, cs) == keys

\* move_forward() without a duration: keyDown('w')
KeysAfter(keys, cs) == IF HasOp(cs, "move_forward") THEN keys \cup {"w"} ELSE keys

\* ------------------------------------------------- main.py, loop bodies
\* _initial_calibration, lines 178-196: what one pass does with the estimate
\* (offset, score).  result is "true" / "false" for the two returns and
\* "continue" for another pass.
\* variant: gives up when the count reaches 12
calibration_step_EarlyFail(offset, score, attempts) ==
    IF Greater(score, CalibrationThreshold)
    THEN IF Abs(offset) > AlignTolerance
         THEN [cmds |-> align_camera(offset), attempts |-> attempts,
               result |-> "continue"]
         ELSE [cmds |-> <<>>, attempts |-> attempts, result |-> "true"]
    ELSE [cmds |-> align_camera(SearchRotation), attempts |-> attempts + 1,
          result |-> IF attempts + 1 >= MaxSearchAttempts THEN "false"
                     ELSE "continue"]

\* variant: an offset equal to the tolerance is re-aligned
calibration_step_TightTolerance(offset, score, attempts) ==
    IF Greater(score, CalibrationThreshold)
    THEN IF Abs(offset) >= AlignTolerance
         THEN [cmds |-> align_camera(offset), attempts |-> attempts,
               result |-> "continue"]
         ELSE [cmds |-> <<>>, attempts |-> attempts, result |-> "true"]
    ELSE [cmds |-> align_camera(SearchRotation), attempts |-> attempts + 1,
          result |-> IF attempts + 1 > MaxSearchAttempts THEN "false"
                     ELSE "continue"]

\* variant: a re-alignment counts as a search attempt
calibration_step_CountsAlign(offset, score, attempts) ==
    IF Greater(score, CalibrationThreshold)
    THEN IF Abs(offset) > AlignTolerance
         THEN [cmds |-> align_camera(offset), attempts |-> attempts + 1,
               result |-> IF attempts + 1 > MaxSearchAttempts THEN "false"
                          ELSE "continue"]
         ELSE [cmds |-> <<>>, attempts |-> attempts, result |-> "true"]
    ELSE [cmds |-> align_camera(SearchRotation), attempts |-> attempts + 1,
          result |-> IF attempts + 1 > MaxSearchAttempts THEN "false"
                     ELSE "continue"]

\* variant: the search rotation also starts walking
calibration_step_Advances(offset, score, attempts) ==
    IF Greater(score, CalibrationThreshold)
    THEN IF Abs(offset) > AlignTolerance
         THEN [cmds |-> align_camera(offset), attempts |-> attempts,
               result |-> "continue"]
         ELSE [cmds |-> <<>>, attempts |-> attempts, result |-> "true"]
    ELSE [cmds |-> align_camera(SearchRotation) \o <<Cmd("move_forward", 0)>>,
          attempts |-> attempts + 1,
          result |-> IF attempts + 1 > MaxSearchAttempts THEN "false"
                     ELSE "continue"]

calibration_step(offset, score, attempts) ==
    IF Greater(score, CalibrationThreshold)
    THEN IF Abs(offset) > AlignTolerance
         THEN [cmds |-> align_camera(offset), attempts |-> attempts,
               result |-> "continue"]
         ELSE [cmds |-> <<>>, attempts |-> attempts, result |-> "true"]
    ELSE [cmds |-> align_camera(SearchRotation), attempts |-> attempts + 1,
          result |-> IF attempts + 1 > MaxSearchAttempts THEN "false"
                     ELSE "continue"]

\* variant: fly_start sends the fly toggle before the jump
arrival_action_ToggleFirst(action) ==
    CASE action = "fly_start" -> [cmds |-> <<Cmd("fly_toggle", 0)>>, next |-> "fly_toggle"]
      [] action = "interact" -> [cmds |-> <<Cmd("interact", 0)>>, next |-> "next_waypoint"]
      [] action = "jump" -> [cmds |-> <<Cmd("jump", 0)>>, next |-> "next_waypoint"]
      [] OTHER -> [cmds |-> <<>>, next |-> "next_waypoint"]

\* main_loop, lines 111-124: the first pulse of the waypoint's action and
\* where the pass continues after the sleep that follows it.
arrival_action(action) ==
    CASE action = "fly_start" -> [cmds |-> <<Cmd("jump", 0)>>, next |-> "fly_toggle"]
      [] action = "interact" -> [cmds |-> <<Cmd("interact", 0)>>, next |-> "next_waypoint"]
      [] action = "jump" -> [cmds |-> <<Cmd("jump", 0)>>, next |-> "next_waypoint"]
      [] OTHER -> [cmds |-> <<>>, next |-> "next_waypoint"]

\* variant: steers also when blind
navigation_step_AlwaysSteer(wps, idx, offset, sim, misses, moving) ==
    IF check_arrival(wps, idx, sim)
    THEN LET a == arrival_action(wps[idx + 1].action)
         IN  [arrived |-> TRUE, cmds |-> a.cmds, moving |-> moving, next |-> a.next]
    ELSE [arrived |-> FALSE,
          cmds |-> align_camera(offset)
                   \o (IF ~moving THEN <<Cmd("move_forward", 0)>> ELSE <<>>),
          moving |-> TRUE,
          next |-> "navigating"]

\* main_loop, lines 105-138: what one pass does with the estimate.
navigation_step(wps, idx, offset, sim, misses, moving) ==
    IF check_arrival(wps, idx, sim)
    THEN LET a == arrival_action(wps[idx + 1].action)
         IN  [arrived |-> TRUE, cmds |-> a.cmds, moving |-> moving, next |-> a.next]
    ELSE [arrived |-> FALSE,
          cmds |-> (IF ~is_blind(misses) THEN align_camera(offset) ELSE <<>>)
                   \o (IF ~moving THEN <<Cmd("move_forward", 0)>> ELSE <<>>),
          moving |-> TRUE,
          next |-> "navigating"]

\* ------------------------------------------------------------------- state
VARIABLES
    route_file,          \* the route file main_loop finds on disk
    status_callback,     \* TRUE when main_loop is given a status callback
    stop_event,          \* the threading.Event polled at the loop heads
    pc,                  \* position of main_loop
    ctrl,                \* "unbound" until InputController() has been built
    waypoints,           \* nav.waypoints
    current_idx,         \* nav.current_idx
    target_des,          \* nav.target_img / target_kp / target_des (see load_waypoint)
    consecutive_misses,  \* nav.consecutive_misses
    search_attempts,     \* local of _initial_calibration
    is_moving,           \* local of main_loop
    offset_x,            \* offset returned by the last calculate_offset
    similarity,          \* similarity returned by the last calculate_offset
    keys_down,           \* keys pydirectinput currently holds down
    cmds,                \* actuator calls made by the last step, in order
    tick,                \* what the last step was
    dispatched,          \* history: per waypoint index, number of action dispatches
    rotations,           \* history: search rotations issued by _initial_calibration
    route_complete,      \* history: next_waypoint() has reported route complete
    stopped_all,         \* history: stop_all_movement() has run
    reported,            \* outcome messages printed so far (main.py 83, 144, 195)
    cause,               \* why main_loop left its loops
    is_running,          \* AutoSkyGUI.is_running
    gui_stop_event,      \* AutoSkyGUI.stop_event
    thread,              \* AutoSkyGUI.thread: 0 for None, else the worker's number
    worker,              \* position of each worker thread in _run_logic
    caller,              \* position of the Tk thread and of the hotkey thread
    after_pending,       \* _check_thread_stop callbacks scheduled by root.after
    start_btn,           \* state of the start button
    stop_btn             \* state of the stop button

mainVars == <<route_file, status_callback, stop_event, pc, ctrl, waypoints,
              current_idx, target_des, consecutive_misses, search_attempts,
              is_moving, offset_x, similarity, keys_down, cmds, tick,
              dispatched, rotations, route_complete, stopped_all, reported,
              cause>>

guiVars == <<is_running, gui_stop_event, thread, worker, caller, after_pending,
             start_btn, stop_btn>>

vars == <<mainVars, guiVars>>

navVars == <<waypoints, current_idx, target_des, consecutive_misses>>
estimateVars == <<offset_x, similarity>>
histVars == <<dispatched, rotations, route_complete>>

Nav == [waypoints |-> waypoints, current_idx |-> current_idx, target_des |-> target_des]

Threads == 1..MaxThreads
Callers == {"tk", "hotkey"}

\* AutoSkyGUI.__init__, gui_launcher.py 26-41: nothing runs yet.
GuiIdle ==
    /\ is_running = FALSE
    /\ gui_stop_event = FALSE
    /\ thread = 0
    /\ worker = [t \in Threads |-> "unstarted"]
    /\ caller = [c \in Callers |-> "idle"]
    /\ after_pending = 0
    /\ start_btn = "normal"
    /\ stop_btn = "disabled"

Init ==
    /\ route_file \in RouteFiles
    /\ status_callback \in BOOLEAN
    /\ stop_event = FALSE
    /\ pc = "start"
    /\ ctrl = "unbound"
    /\ waypoints = <<>>
    /\ current_idx = 0
    /\ target_des = None
    /\ consecutive_misses = 0
    /\ search_attempts = 0
    /\ is_moving = FALSE
    /\ offset_x = 0
    /\ similarity = Zero
    /\ keys_down = {}
    /\ cmds = <<>>
    /\ tick = "none"
    /\ dispatched = [i \in 0..(MaxRoute - 1) |-> 0]
    /\ rotations = 0
    /\ route_complete = FALSE
    /\ stopped_all = FALSE
    /\ reported = {}
    /\ cause = "none"
    /\ GuiIdle

\* main.py 64-78: build the navigator and the controller, report the first
\* waypoint to the callback, enter _initial_calibration.
\*  - json.load raising leaves ctrl unbound and goes to the handlers;
\*  - with a callback, line 74 raises IndexError on an empty route and line 75
\*    raises NameError otherwise (main.py never imports os).
Construct ==
    /\ pc = "start"
    /\ tick' = "construct"
    /\ cmds' = <<>>
    /\ UNCHANGED <<guiVars, route_file, status_callback, stop_event, consecutive_misses,
                   search_attempts, is_moving, estimateVars, keys_down, histVars,
                   stopped_all>>
    /\ IF route_file.state = "unparseable"
       THEN /\ pc' = "finally"
            /\ cause' = "fault"
            /\ reported' = reported \cup {"error"}
            /\ UNCHANGED <<ctrl, waypoints, current_idx, target_des>>
       ELSE LET wps == _load_json(route_file)
                r == load_waypoint([waypoints |-> wps, current_idx |-> 0,
                                    target_des |-> None], 0)
            IN  /\ waypoints' = wps
                /\ current_idx' = r.nav.current_idx
                /\ target_des' = r.nav.target_des
                /\ ctrl' = "bound"
                /\ IF status_callback
                   THEN /\ pc' = "finally" /\ cause' = "fault"
                        /\ reported' = reported \cup {"error"}
                   ELSE /\ pc' = "calibrating" /\ cause' = "none"
                        /\ reported' = reported

\* main.py 166 with the flag set: the while loop of _initial_calibration is
\* not entered, the function returns None and main_loop returns at line 84.
CalibrationCancelled ==
    /\ pc = "calibrating"
    /\ stop_event
    /\ pc' = "finally"
    /\ cause' = "cancelled"
    /\ reported' = reported \cup {"calibration_failed"}     \* line 83
    /\ tick' = "cancel"
    /\ cmds' = <<>>
    /\ UNCHANGED <<guiVars, route_file, status_callback, stop_event, ctrl, navVars,
                   search_attempts, is_moving, estimateVars, keys_down, histVars,
                   stopped_all>>

\* main.py 166-196: one pass of the calibration loop.
CalibrationTick(frame) ==
    /\ pc = "calibrating"
    /\ ~stop_event
    /\ LET r == calculate_offset(target_des, consecutive_misses, frame)
           c == calibration_step(r.offset, r.similarity, search_attempts)
       IN  /\ r.misses <= MaxMisses
           /\ consecutive_misses' = r.misses
           /\ offset_x' = r.offset
           /\ similarity' = r.similarity
           /\ cmds' = c.cmds
           /\ tick' = "calib"
           /\ pc' = CASE c.result = "true" -> "navigating"
                      [] c.result = "false" -> "finally"
                      [] OTHER -> "calibrating"
           /\ cause' = IF c.result = "false" THEN "calibration_failed" ELSE cause
           /\ reported' = IF c.result = "false"
                          THEN reported \cup {"calibration_failed"}   \* 195, 83
                          ELSE reported
           \* the locals of _initial_calibration end with a successful return
           /\ search_attempts' = IF c.result = "true" THEN 0 ELSE c.attempts
           /\ rotations' = IF c.result = "true" THEN 0
                           ELSE IF HasOp(c.cmds, "align_camera")
                                   /\ c.cmds[1].arg = SearchRotation
                                THEN rotations + 1 ELSE rotations
    /\ UNCHANGED <<guiVars, route_file, status_callback, stop_event, ctrl, waypoints,
                   current_idx, target_des, is_moving, keys_down, dispatched,
                   route_complete, stopped_all>>

\* main.py 88 with the flag set: the navigation loop ends.
NavCancelled ==
    /\ pc = "navigating"
    /\ stop_event
    /\ pc' = "finally"
    /\ cause' = "cancelled"
    /\ tick' = "cancel"
    /\ cmds' = <<>>
    /\ UNCHANGED <<guiVars, reported, route_file, status_callback, stop_event, ctrl, navVars,
                   search_attempts, is_moving, estimateVars, keys_down, histVars,
                   stopped_all>>

\* variant: an unmatched frame drops the cached target
NavTick_DropsTarget(frame) ==
    /\ pc = "navigating"
    /\ ~stop_event
    /\ LET r == calculate_offset(target_des, consecutive_misses, frame)
           n == navigation_step(waypoints, current_idx, r.offset, r.similarity,
                                r.misses, is_moving)
       IN  /\ r.misses <= MaxMisses
           /\ n.arrived => dispatched[current_idx] < MaxDispatch
           /\ consecutive_misses' = r.misses
           /\ offset_x' = r.offset
           /\ similarity' = r.similarity
           /\ target_des' = IF r.similarity = Zero THEN None ELSE target_des
           /\ cmds' = n.cmds
           /\ tick' = IF n.arrived THEN "arrival" ELSE "nav"
           /\ pc' = n.next
           /\ is_moving' = n.moving
           /\ keys_down' = KeysAfter(keys_down, n.cmds)
           /\ dispatched' = IF n.arrived
                            THEN [dispatched EXCEPT ![current_idx] = @ + 1]
                            ELSE dispatched
    /\ UNCHANGED <<guiVars, reported, route_file, status_callback, stop_event, ctrl, waypoints,
                   current_idx, search_attempts, rotations,
                   route_complete, stopped_all, cause>>

\* variant: the navigation loop does not poll the stop event
NavTick_IgnoresStop(frame) ==
    /\ pc = "navigating"
    /\ LET r == calculate_offset(target_des, consecutive_misses, frame)
           n == navigation_step(waypoints, current_idx, r.offset, r.similarity,
                                r.misses, is_moving)
       IN  /\ r.misses <= MaxMisses
           /\ n.arrived => dispatched[current_idx] < MaxDispatch
           /\ consecutive_misses' = r.misses
           /\ offset_x' = r.offset
           /\ similarity' = r.similarity
           /\ cmds' = n.cmds
           /\ tick' = IF n.arrived THEN "arrival" ELSE "nav"
           /\ pc' = n.next
           /\ is_moving' = n.moving
           /\ keys_down' = KeysAfter(keys_down, n.cmds)
           /\ dispatched' = IF n.arrived
                            THEN [dispatched EXCEPT ![current_idx] = @ + 1]
                            ELSE dispatched
    /\ UNCHANGED <<guiVars, reported, route_file, status_callback, stop_event, ctrl, waypoints,
                   current_idx, target_des, search_attempts, rotations,
                   route_complete, stopped_all, cause>>

\* main.py 88-141: one pass of the navigation loop, up to the first sleep of
\* an arrival (113-114, 119-120, 123-124) or to the end of the pass.
NavTick(frame) ==
    /\ pc = "navigating"
    /\ ~stop_event
    /\ LET r == calculate_offset(target_des, consecutive_misses, frame)
           n == navigation_step(waypoints, current_idx, r.offset, r.similarity,
                                r.misses, is_moving)
       IN  /\ r.misses <= MaxMisses
           /\ n.arrived => dispatched[current_idx] < MaxDispatch
           /\ consecutive_misses' = r.misses
           /\ offset_x' = r.offset
           /\ similarity' = r.similarity
           /\ cmds' = n.cmds
           /\ tick' = IF n.arrived THEN "arrival" ELSE "nav"
           /\ pc' = n.next
           /\ is_moving' = n.moving
           /\ keys_down' = KeysAfter(keys_down, n.cmds)
           /\ dispatched' = IF n.arrived
                            THEN [dispatched EXCEPT ![current_idx] = @ + 1]
                            ELSE dispatched
    /\ UNCHANGED <<guiVars, reported, route_file, status_callback, stop_event, ctrl, waypoints,
                   current_idx, target_des, search_attempts, rotations,
                   route_complete, stopped_all, cause>>

\* variant: the pending pulse is skipped once the stop event is set
FlyToggle_Preemptible ==
    /\ pc = "fly_toggle"
    /\ ~stop_event
    /\ cmds' = <<Cmd("fly_toggle", 0)>>
    /\ tick' = "fly_toggle"
    /\ pc' = "next_waypoint"
    /\ UNCHANGED <<guiVars, reported, route_file, status_callback, stop_event, ctrl, navVars,
                   search_attempts, is_moving, estimateVars, keys_down, histVars,
                   stopped_all, cause>>

\* main.py 115-116: the second pulse of fly_start.
FlyToggle ==
    /\ pc = "fly_toggle"
    /\ cmds' = <<Cmd("fly_toggle", 0)>>
    /\ tick' = "fly_toggle"
    /\ pc' = "next_waypoint"
    /\ UNCHANGED <<guiVars, reported, route_file, status_callback, stop_event, ctrl, navVars,
                   search_attempts, is_moving, estimateVars, keys_down, histVars,
                   stopped_all, cause>>

\* main.py 127-128: nav.next_waypoint(), result ignored, continue.
NextWaypoint ==
    /\ pc = "next_waypoint"
    /\ LET r == next_waypoint(Nav)
       IN  /\ current_idx' = r.nav.current_idx
           /\ target_des' = r.nav.target_des
           /\ route_complete' = (route_complete \/ r.complete)
    /\ cmds' = <<>>
    /\ tick' = "next_waypoint"
    /\ pc' = "navigating"
    /\ UNCHANGED <<guiVars, reported, route_file, status_callback, stop_event, ctrl, waypoints,
                   consecutive_misses, search_attempts, is_moving, estimateVars,
                   keys_down, dispatched, rotations, stopped_all, cause>>

\* main.py 143-144: an exception raised by a call inside a pass of either
\* loop (capture, OpenCV, pydirectinput) is caught by the handler.
Fault ==
    /\ pc \in {"calibrating", "navigating", "fly_toggle", "next_waypoint"}
    /\ pc' = "finally"
    /\ cause' = "fault"
    /\ reported' = reported \cup {"error"}
    /\ tick' = "fault"
    /\ cmds' = <<>>
    /\ UNCHANGED <<guiVars, route_file, status_callback, stop_event, ctrl, navVars,
                   search_attempts, is_moving, estimateVars, keys_down, histVars,
                   stopped_all>>

\* main.py 145-148: the finally block.  With ctrl unbound the call raises
\* UnboundLocalError out of main_loop.
Finally ==
    /\ pc = "finally"
    /\ tick' = "finally"
    /\ IF ctrl = "unbound"
       THEN /\ pc' = "raised"
            /\ cmds' = <<>>
            /\ UNCHANGED <<keys_down, stopped_all>>
       ELSE /\ pc' = "returned"
            /\ cmds' = <<Cmd("stop_all_movement", 0)>>
            /\ keys_down' = stop_all_movement(keys_down)
            /\ stopped_all' = TRUE
    /\ UNCHANGED <<guiVars, reported, route_file, status_callback, stop_event, ctrl, navVars,
                   search_attempts, is_moving, estimateVars, histVars, cause>>

\* Another thread sets the stop event (gui_launcher.py 70).
SetStopEvent ==
    /\ ~stop_event
    /\ pc \notin {"returned", "raised"}
    /\ stop_event' = TRUE
    /\ UNCHANGED <<guiVars, reported, route_file, status_callback, pc, ctrl, navVars,
                   search_attempts, is_moving, estimateVars, keys_down, cmds,
                   tick, histVars, stopped_all, cause>>

Next ==
    \/ Construct
    \/ CalibrationCancelled
    \/ \E f \in Frames : CalibrationTick(f)
    \/ NavCancelled
    \/ \E f \in Frames : NavTick(f)
    \/ FlyToggle
    \/ NextWaypoint
    \/ Fault
    \/ Finally
    \/ SetStopEvent

Spec == Init /\ [][Next]_vars

\* The steps of the worker thread that runs main_loop.
Worker ==
    \/ Construct
    \/ CalibrationCancelled
    \/ \E f \in Frames : CalibrationTick(f)
    \/ NavCancelled
    \/ \E f \in Frames : NavTick(f)
    \/ FlyToggle
    \/ NextWaypoint
    \/ Finally

\* The worker thread keeps being scheduled while it has a step to take.
LiveSpec == Init /\ [][Next]_vars /\ WF_vars(Worker)

\* ------------------------------------------------ gui_launcher.py, the GUI
\* A worker thread is alive from Thread.start() until _run_logic ends.
Alive(t) == worker[t] \in {"init", "running", "finally", "finally_unbound"}

Unstarted == {t \in Threads : worker[t] = "unstarted"}
Testing == {c \in Callers : caller[c] = "start_tested"}

\* start_program, line 51: the test of is_running, passed.  (With is_running
\* set the call returns at 52 and changes nothing.)  The Tk thread gets here
\* from the start button, which must be enabled; the hotkey thread from F9.
start_program_Test(c) ==
    /\ caller[c] = "idle"
    /\ c = "tk" => start_btn = "normal"
    /\ ~is_running
    /\ Cardinality(Unstarted) > Cardinality(Testing)
    /\ caller' = [caller EXCEPT ![c] = "start_tested"]
    /\ UNCHANGED <<mainVars, is_running, gui_stop_event, thread, worker,
                   after_pending, start_btn, stop_btn>>

\* start_program, lines 54-63: set the flag, clear the event, switch the
\* buttons, create and start the worker thread.
start_program_Body(c) ==
    /\ caller[c] = "start_tested"
    /\ \E t \in Unstarted :
          /\ \A u \in Unstarted : t <= u
          /\ thread' = t
          /\ worker' = [worker EXCEPT ![t] = "init"]
    /\ is_running' = TRUE
    /\ gui_stop_event' = FALSE
    /\ start_btn' = "disabled"
    /\ stop_btn' = "normal"
    /\ caller' = [caller EXCEPT ![c] = "idle"]
    /\ UNCHANGED <<mainVars, after_pending>>

\* stop_program, lines 66-73, called from the stop button or from F10: with
\* is_running set, set the event and schedule _check_thread_stop.
stop_program(c) ==
    /\ caller[c] = "idle"
    /\ c = "tk" => stop_btn = "normal"
    /\ is_running
    /\ after_pending < MaxAfter
    /\ gui_stop_event' = TRUE
    /\ after_pending' = after_pending + 1
    /\ UNCHANGED <<mainVars, is_running, thread, worker, caller, start_btn,
                   stop_btn>>

\* _check_thread_stop, lines 76-82, run by the Tk thread between its other
\* callbacks: with self.thread alive it schedules itself again (no change);
\* otherwise it resets the flag and the buttons.
_check_thread_stop ==
    /\ after_pending > 0
    /\ caller["tk"] = "idle"
    /\ ~(thread # 0 /\ Alive(thread))
    /\ after_pending' = after_pending - 1
    /\ is_running' = FALSE
    /\ start_btn' = "normal"
    /\ stop_btn' = "disabled"
    /\ UNCHANGED <<mainVars, gui_stop_event, thread, worker, caller>>

\* _run_logic, lines 92-93: the navigator and the controller are built.
run_logic_Construct(t) ==
    /\ worker[t] = "init"
    /\ worker' = [worker EXCEPT ![t] = "running"]
    /\ UNCHANGED <<mainVars, is_running, gui_stop_event, thread, caller,
                   after_pending, start_btn, stop_btn>>

\* _run_logic, line 92: SkyNavigator(...) raises (json.load on a file that
\* is not valid JSON); the handler at 153 runs with ctrl unbound.
run_logic_ConstructFault(t) ==
    /\ worker[t] = "init"
    /\ worker' = [worker EXCEPT ![t] = "finally_unbound"]
    /\ UNCHANGED <<mainVars, is_running, gui_stop_event, thread, caller,
                   after_pending, start_btn, stop_btn>>

\* _run_logic, lines 108 and 174: a loop head finds the stop event set.
run_logic_Stopped(t) ==
    /\ worker[t] = "running"
    /\ gui_stop_event
    /\ worker' = [worker EXCEPT ![t] = "finally"]
    /\ UNCHANGED <<mainVars, is_running, gui_stop_event, thread, caller,
                   after_pending, start_btn, stop_btn>>

\* _run_logic, lines 102-104 and 153-154: calibration fails, or a call
\* inside a pass raises.
run_logic_Fails(t) ==
    /\ worker[t] = "running"
    /\ worker' = [worker EXCEPT ![t] = "finally"]
    /\ UNCHANGED <<mainVars, is_running, gui_stop_event, thread, caller,
                   after_pending, start_btn, stop_btn>>

\* _run_logic, lines 155-159 with ctrl bound: stop_all_movement(), then
\* self.stop_program() in the worker thread, then the thread ends.
run_logic_Finally(t) ==
    /\ worker[t] = "finally"
    /\ worker' = [worker EXCEPT ![t] = "done"]
    /\ IF is_running
       THEN /\ after_pending < MaxAfter
            /\ gui_stop_event' = TRUE
            /\ after_pending' = after_pending + 1
       ELSE UNCHANGED <<gui_stop_event, after_pending>>
    /\ UNCHANGED <<mainVars, is_running, thread, caller, start_btn, stop_btn>>

\* _run_logic, line 158 with ctrl unbound: UnboundLocalError ends the
\* thread before line 159.
run_logic_FinallyUnbound(t) ==
    /\ worker[t] = "finally_unbound"
    /\ worker' = [worker EXCEPT ![t] = "raised"]
    /\ UNCHANGED <<mainVars, is_running, gui_stop_event, thread, caller,
                   after_pending, start_btn, stop_btn>>

\* The GUI alone: main_loop is not running, the workers are GUI threads.
GuiInit ==
    /\ Init
    /\ route_file = [state |-> "absent", content |-> <<>>]
    /\ ~status_callback

GuiNext ==
    \/ \E c \in Callers : start_program_Test(c)
    \/ \E c \in Callers : start_program_Body(c)
    \/ \E c \in Callers : stop_program(c)
    \/ _check_thread_stop
    \/ \E t \in Threads : run_logic_Construct(t)
    \/ \E t \in Threads : run_logic_ConstructFault(t)
    \/ \E t \in Threads : run_logic_Stopped(t)
    \/ \E t \in Threads : run_logic_Fails(t)
    \/ \E t \in Threads : run_logic_Finally(t)
    \/ \E t \in Threads : run_logic_FinallyUnbound(t)

GuiSpec == GuiInit /\ [][GuiNext]_vars

TypeOK ==
    /\ pc \in {"start", "calibrating", "navigating", "fly_toggle",
               "next_waypoint", "finally", "returned", "raised"}
    /\ current_idx \in 0..MaxRoute
    /\ target_des \in {None} \cup (0..(MaxRoute - 1))
    /\ consecutive_misses \in 0..MaxMisses
    /\ search_attempts \in 0..(MaxSearchAttempts + 1)
    /\ keys_down \subseteq MovementKeys

\* ------------------------------------------------------------- properties
NavPcs == {"navigating", "fly_toggle", "next_waypoint"}
SixTenths == [num |-> 6, den |-> 10]
TwoTenths == [num |-> 2, den |-> 10]

\* A step that runs calculate_offset: one pass of either loop.
EstimateStep ==
    \/ \E f \in Frames : CalibrationTick(f)
    \/ \E f \in Frames : NavTick(f)

\* C1: once next_waypoint() has reported route complete, no further pass of
\* the navigation loop runs: the only steps left are the end of the loop and
\* the cleanup, so the last step is never a navigation pass or an arrival.
C1_RouteCompleteIsTerminal ==
    route_complete => tick \in {"next_waypoint", "cancel", "fault", "finally"}

\* C2: the action of every waypoint is dispatched at most once in a run.
C2_DispatchedOnce ==
    \A i \in DOMAIN dispatched : dispatched[i] <= 1

\* C3: once the controller exists, main_loop never ends by raising, it ends
\* only after stop_all_movement() has run, and then none of w, a, s, d is
\* held down.
C3_CleanupOnEveryExit ==
    (ctrl = "bound" /\ pc \in {"returned", "raised"})
        => (pc = "returned" /\ stopped_all /\ keys_down \cap MovementKeys = {})

\* C3 witness: a fault in a navigation pass with the forward key held, after
\* which main_loop has returned.
C3_Witness ==
    pc = "returned" /\ cause = "fault" /\ is_moving /\ stopped_all

\* C4: calibration fails exactly at the 13th search rotation: a failure has
\* seen 13 rotations, and a pass that leaves the count at 12 or fewer does
\* not end the calibration.
C4_FailsAtThirteenth ==
    /\ cause = "calibration_failed" => rotations = 13
    /\ (tick = "calib" /\ rotations = 13) => cause = "calibration_failed"
    /\ (tick = "calib" /\ rotations <= 12) => pc \in {"calibrating", "navigating"}
    /\ rotations <= 13

C4_Witness ==
    pc = "returned" /\ cause = "calibration_failed" /\ rotations = 13

\* C5: a calibration pass hands over to navigation if and only if its own
\* estimate has similarity > 0.6 and |offset| <= 10, and the navigation loop
\* is entered from nowhere else.
C5_ExitIffLockedAndAligned ==
    /\ [](tick = "calib" =>
            (pc = "navigating" <=>
                (Greater(similarity, SixTenths) /\ Abs(offset_x) <= 10)))
    /\ [][(pc \notin NavPcs /\ pc' \in NavPcs) =>
            (pc = "calibrating" /\ tick' = "calib" /\ pc' = "navigating")]_vars

C5_Witness ==
    tick = "calib" /\ pc = "navigating" /\ Abs(offset_x) = 10

\* C6: a calibration pass with similarity > 0.6 and |offset| > 10 calls the
\* steering with that offset and leaves search_attempts unchanged; a pass with
\* similarity <= 0.6 calls the rotation of 30 and adds exactly 1; nothing
\* else increases search_attempts.
C6_AttemptCounter ==
    [][ /\ (\E f \in Frames : CalibrationTick(f)) =>
           IF Greater(similarity', SixTenths)
           THEN /\ search_attempts' <= search_attempts
                /\ Abs(offset_x') > 10 =>
                      /\ search_attempts' = search_attempts
                      /\ cmds'[1] = Cmd("align_camera", offset_x')
           ELSE /\ search_attempts' = search_attempts + 1
                /\ cmds'[1] = Cmd("align_camera", 30)
        /\ (search_attempts' > search_attempts) =>
              (\E f \in Frames : CalibrationTick(f))
      ]_vars

C6_Witness ==
    /\ tick = "calib" /\ pc = "calibrating"
    /\ Greater(similarity, SixTenths) /\ Abs(offset_x) > 10
    /\ search_attempts = 3

\* C7: every call of calculate_offset that returns a similarity below 0.2
\* adds exactly 1 to consecutive_misses, and every call that returns 0.2 or
\* more leaves it at 0.
C7_MissCounter ==
    [][ EstimateStep =>
           IF Less(similarity', TwoTenths)
           THEN consecutive_misses' = consecutive_misses + 1
           ELSE consecutive_misses' = 0 ]_vars

C9_ArrivalIffAboveThreshold ==
    tick \in {"nav", "arrival"} =>
        LET wp == waypoints[current_idx + 1]
            th == IF wp.match_threshold = Absent THEN SixTenths
                  ELSE wp.match_threshold
        IN  (tick = "arrival") <=> (similarity.num * th.den > th.num * similarity.den)

\* C9 witness: a similarity equal to the default threshold is not an arrival.
C9_Witness ==
    /\ tick = "nav"
    /\ waypoints[current_idx + 1].match_threshold = Absent
    /\ similarity.num * 10 = 6 * similarity.den

C11_OutOfRangeLoadIsIdle ==
    /\ [](\A i \in Len(waypoints)..(MaxRoute + 1) :
            LET r == load_waypoint(Nav, i)
            IN  /\ r.result = FALSE
                /\ r.complete
                /\ r.nav.current_idx = current_idx
                /\ r.nav.target_des = target_des
                /\ load_waypoint(r.nav, i) = r)
    /\ [][(pc = "next_waypoint" /\ pc' = "navigating"
           /\ current_idx + 1 >= Len(waypoints)) =>
             (route_complete' /\ current_idx' = current_idx
              /\ target_des' = target_des)]_vars

C11_Witness ==
    /\ tick = "next_waypoint" /\ route_complete
    /\ current_idx = Len(waypoints) - 1 /\ target_des = current_idx

\* C12: a load_waypoint(i) for a valid index whose image is missing leaves
\* the index and the cached target as they were before the call.
C12_MissingImageKeepsIndex ==
    [][(pc = "next_waypoint" /\ pc' = "navigating"
        /\ current_idx + 1 < Len(waypoints)
        /\ ~waypoints[current_idx + 2].image_exists) =>
          (current_idx' = current_idx /\ target_des' = target_des)]_vars

\* C13: with the route file absent or unparseable main_loop ends at once as
\* DONE: it does not raise, issues no search rotation and reports neither a
\* calibration failure nor a fault.
C13_ConfigMissingIsDone ==
    route_file.state \in {"absent", "unparseable"} =>
        /\ pc # "raised"
        /\ rotations = 0
        /\ ~HasOp(cmds, "align_camera")
        /\ reported = {}

\* C14: when main_loop has ended, the outcome it reports is the one that
\* matches the cause: CANCELLED for a cancellation (also one during
\* calibration), CALIBRATION_FAILED for more than 12 failed attempts, ERROR
\* for a fault.
C14_OutcomeMatchesCause ==
    pc \in {"returned", "raised"} =>
        /\ cause = "cancelled" => reported = {"cancelled"}
        /\ cause = "calibration_failed" => reported = {"calibration_failed"}
        /\ cause = "fault" => reported = {"error"}

Ended == pc \in {"returned", "raised"}

\* C15: the stop event is read only at the loop heads: set in the middle of
\* an arrival, it leaves the pending fly toggle and the waypoint advance
\* enabled and they are what the pass does next (short of a fault); with the
\* event set no new pass of either loop starts.
C15_CancelOnlyBetweenPasses ==
    /\ [](pc = "fly_toggle" => ENABLED FlyToggle)
    /\ [](pc = "next_waypoint" => ENABLED NextWaypoint)
    /\ [][(stop_event /\ pc = "fly_toggle" /\ pc' # pc) =>
            \/ pc' = "finally" /\ tick' = "fault"
            \/ pc' = "next_waypoint" /\ cmds' = <<Cmd("fly_toggle", 0)>>]_vars
    /\ [][(stop_event /\ pc = "next_waypoint" /\ pc' # pc) =>
            \/ pc' = "finally" /\ tick' = "fault"
            \/ /\ pc' = "navigating" /\ tick' = "next_waypoint"
               /\ current_idx' = Min(current_idx + 1, Max(Len(waypoints) - 1, 0))]_vars
    /\ [][stop_event => ~EstimateStep]_vars

\* C15 witness: the event was set during a fly_start arrival and the fly
\* toggle and the advance have run all the same.
C15_Witness ==
    /\ stop_event /\ tick = "next_waypoint" /\ pc = "navigating"
    /\ current_idx > 0 /\ waypoints[current_idx].action = "fly_start"

\* C16: once the stop event is set, a worker that keeps being scheduled
\* ends main_loop.
C16_StopLeadsToEnd == stop_event ~> Ended

C16_Witness ==
    stop_event /\ pc = "returned" /\ cause = "cancelled" /\ is_moving

\* C17: the commands of an arrival depend only on the waypoint's action and
\* come in a fixed order before the advance: none for walk, one jump for
\* jump, one interact for interact, one jump and then one fly toggle for
\* fly_start; next_waypoint() runs only after them and is the only step that
\* changes the index.
C17_ArrivalCommandOrder ==
    /\ [](tick = "arrival" =>
            LET a == waypoints[current_idx + 1].action
            IN  /\ cmds = CASE a = "jump" -> <<Cmd("jump", 0)>>
                            [] a = "interact" -> <<Cmd("interact", 0)>>
                            [] a = "fly_start" -> <<Cmd("jump", 0)>>
                            [] a = "walk" -> <<>>
                /\ pc = IF a = "fly_start" THEN "fly_toggle" ELSE "next_waypoint")
    /\ [](tick = "fly_toggle" =>
            /\ cmds = <<Cmd("fly_toggle", 0)>>
            /\ pc = "next_waypoint"
            /\ waypoints[current_idx + 1].action = "fly_start")
    /\ [][(tick' = "fly_toggle" /\ tick # "fly_toggle") =>
            (tick = "arrival" /\ cmds = <<Cmd("jump", 0)>>)]_vars
    /\ [][(tick' = "next_waypoint" /\ tick # "next_waypoint") =>
            \/ tick = "fly_toggle"
            \/ tick = "arrival" /\ waypoints[current_idx + 1].action # "fly_start"]_vars
    /\ [][current_idx' # current_idx => tick' = "next_waypoint"]_vars

C17_Witness ==
    /\ tick = "next_waypoint" /\ current_idx = 1
    /\ waypoints[1].action = "fly_start"

\* C18: after a non-arrival navigation pass the forward key is held, it
\* stays held through arrivals, waypoint switches and blind passes, and only
\* the cleanup releases it.
C18_ForwardHeldUntilCleanup ==
    /\ [](tick = "nav" => (is_moving /\ "w" \in keys_down))
    /\ []((is_moving /\ pc \in NavPcs) => "w" \in keys_down)
    /\ [][("w" \in keys_down /\ "w" \notin keys_down') =>
            (pc = "finally" /\ tick' = "finally")]_vars

\* C18 witness: the key is still held after a waypoint switch.
C18_Witness ==
    tick = "next_waypoint" /\ current_idx = 1 /\ "w" \in keys_down

\* A pass of either loop that captures frame f.
PassWith(f) == CalibrationTick(f) \/ NavTick(f)

\* Number of matches of m with distance below d.
CountBelow(m, d) == Cardinality({i \in 1..Len(m) : m[i].distance < d})

\* The frame gives fewer than 5 descriptors or fewer than 4 retained matches.
LowSignalOf ==
    [f \in Frames |-> f.des < 5 \/ Len(GoodMatches(f.matches)) < 4]

\* C19: a pass that extracts the frame (a target is loaded) and gets fewer
\* than 5 descriptors, or retains fewer than 4 matches, completes with offset 0
\* and similarity 0 and counts exactly one miss; no other frame of such a pass
\* is reported with similarity 0 and offset 0.
C19_UnmatchedFrameIsMiss ==
    [][\A f \in Frames : (target_des # None /\ PassWith(f)) =>
          IF LowSignalOf[f]
          THEN /\ offset_x' = 0
               /\ similarity' = [num |-> 0, den |-> 1]
               /\ consecutive_misses' = consecutive_misses + 1
               /\ tick' \in {"calib", "nav"}
               /\ pc' # "raised"
               /\ reported' \subseteq reported \cup {"calibration_failed"}
          ELSE similarity'.num > 0]_vars

\* C19 witness: a pass on a loaded target ended unmatched and was counted.
C19_Witness ==
    /\ tick \in {"calib", "nav"}
    /\ target_des # None
    /\ offset_x = 0
    /\ similarity.num = 0
    /\ consecutive_misses = 2

\* The retained matches r of the matches m: the first floor(0.15 n) in
\* ascending distance, without those at or above 60.
TopFractionBelowCeiling(m, r) ==
    LET k == (15 * Len(m)) \div 100
    IN  /\ Len(r) = Min(k, CountBelow(m, 60))
        /\ \A i \in 1..Len(r) :
              /\ r[i].distance < 60
              /\ CountBelow(m, r[i].distance) < k
              /\ \E j \in 1..Len(m) : m[j] = r[i]
        /\ \A i, j \in 1..Len(r) : i < j => r[i].distance <= r[j].distance

RetentionOf ==
    [f \in Frames |-> TopFractionBelowCeiling(f.matches, GoodMatches(f.matches))]

\* the same with the floor of the claim: the first max(floor(0.15 n), 10)
\* matches are taken when at least 10 exist
RetentionWithFloorOf ==
    [f \in Frames |->
        LET m == f.matches
            r == GoodMatches(m)
            k == IF Len(m) >= 10 THEN Max((15 * Len(m)) \div 100, 10)
                 ELSE (15 * Len(m)) \div 100
        IN  /\ Len(r) = Min(k, CountBelow(m, 60))
            /\ \A i \in 1..Len(r) : r[i].distance < 60]

\* C20 as claimed: of the matches of a frame the best 15% are retained, but
\* not fewer than 10 when at least 10 exist, always without those at or
\* above distance 60.
C20_RetainedWithFloor ==
    [][\A f \in Frames : (target_des # None /\ PassWith(f)) =>
          RetentionWithFloorOf[f]]_vars

\* C20 amended: the retained matches are the first floor(0.15 n) in ascending
\* distance without those at or above distance 60; there is no minimum count.
C20_RetainedTopFraction ==
    [][\A f \in Frames : (target_des # None /\ PassWith(f)) =>
          RetentionOf[f]]_vars

\* C20 witness: a pass on the frame whose sixth-best match is above the
\* ceiling, of which 5 matches were retained (similarity 300/400, offset 15).
C20_Witness ==
    /\ tick \in {"calib", "nav", "arrival"}
    /\ similarity = [num |-> 300, den |-> 400]
    /\ offset_x = 15

\* C21: the cached target is set by a successful load_waypoint only (in the
\* constructor or in next_waypoint()), to the snapshot of the waypoint just
\* loaded; a pass of either loop (calculate_offset, is_blind, check_arrival,
\* get_current_action) and the pulses of an arrival leave the target and the
\* index as they are.
C21_TargetSetOnlyByLoad ==
    /\ [][(EstimateStep \/ FlyToggle) =>
            UNCHANGED <<target_des, current_idx, waypoints>>]_vars
    /\ [][target_des' # target_des =>
            /\ Construct \/ NextWaypoint
            /\ target_des' = current_idx'
            /\ waypoints'[current_idx' + 1].image_exists]_vars
    /\ [][(NextWaypoint /\ current_idx + 1 < Len(waypoints)
           /\ waypoints[current_idx + 2].image_exists) =>
            target_des' = current_idx + 1]_vars

\* C21 witness: navigation passes on the second waypoint's snapshot, among
\* them unmatched ones, have left it in place.
C21_Witness ==
    /\ tick = "nav" /\ target_des = 1 /\ current_idx = 1
    /\ consecutive_misses = 3

\* C22: the index starts at 0, changes only in the next_waypoint() of an
\* arrival, then by exactly +1, and is below the number of waypoints of a
\* non-empty route; the advance happens whenever a next waypoint exists.
C22_IndexAdvancesByOne ==
    /\ [](Len(waypoints) > 0 => current_idx \in 0..(Len(waypoints) - 1))
    /\ [](pc \in {"start", "calibrating"} => current_idx = 0)
    /\ [][current_idx' # current_idx =>
            /\ current_idx' = current_idx + 1
            /\ pc = "next_waypoint" /\ tick' = "next_waypoint"
            /\ tick \in {"arrival", "fly_toggle"}]_vars
    /\ [][NextWaypoint =>
            current_idx' = IF current_idx + 1 < Len(waypoints)
                           THEN current_idx + 1 ELSE current_idx]_vars

\* C22 witness: the second of two waypoints became current after the one
\* dispatch of the first.
C22_Witness ==
    /\ tick = "next_waypoint" /\ current_idx = 1 /\ Len(waypoints) = 2
    /\ dispatched[0] = 1 /\ dispatched[1] = 0

\* C23: an arrival is decided on the snapshot of the waypoint at the current
\* index: the cached target is the one computed from that waypoint's image.
C23_ArrivalOnOwnImage ==
    tick = "arrival" => target_des = current_idx

NonZeroMove(cs) == \E i \in 1..Len(cs) : cs[i].op = "moveRel" /\ cs[i].arg # 0

\* C24: a calibration pass after which calibration goes on has counted a
\* search attempt or has moved the camera by a non-zero amount.
C24_CalibrationPassProgresses ==
    [][((\E f \in Frames : CalibrationTick(f)) /\ pc' = "calibrating") =>
          (search_attempts' = search_attempts + 1 \/ NonZeroMove(cmds'))]_vars

\* C25: a fault raised while main_loop builds its objects, before the
\* controller exists, is handled too: main_loop does not end by raising.
C25_InitFaultIsHandled ==
    (ctrl = "unbound" /\ cause = "fault") => pc # "raised"

\* C26: the similarity of an estimate is within [0, 1] and is either 0 or
\* at least 0.2625; a pass with a non-zero similarity leaves
\* consecutive_misses at 0, and the counter grows only in a pass that
\* returns offset 0 and similarity 0 on a loaded target.
C26_SimilarityZeroOrAboveFloor ==
    /\ [](/\ similarity.den > 0
          /\ 0 <= similarity.num /\ similarity.num <= similarity.den
          /\ similarity.num = 0 \/ 10000 * similarity.num >= 2625 * similarity.den)
    /\ [][EstimateStep =>
            /\ similarity'.num > 0 => consecutive_misses' = 0
            /\ consecutive_misses' > consecutive_misses =>
                  /\ similarity'.num = 0 /\ offset_x' = 0
                  /\ target_des # None
                  /\ consecutive_misses' = consecutive_misses + 1]_vars
    /\ [][consecutive_misses' # consecutive_misses => EstimateStep]_vars

\* C26 witness: a matched frame of similarity exactly 0.2625 (every retained
\* match at distance 59) reset the counter.
C26_Witness ==
    /\ tick = "nav"
    /\ 80 * similarity.num = 21 * similarity.den
    /\ consecutive_misses = 0

\* C29: the pass that ends calibration with success leaves
\* consecutive_misses at 0, whatever it was before, so the first navigation
\* pass starts with the counter at 0 and is_blind() false.
C29_NavigationStartsSighted ==
    /\ [](tick = "calib" /\ pc = "navigating" =>
            consecutive_misses = 0 /\ ~(consecutive_misses > 10))
    /\ [][(pc = "calibrating" /\ pc' = "navigating") =>
            (consecutive_misses' = 0 /\ Greater(similarity', SixTenths))]_vars
    /\ [][(pc \notin NavPcs /\ pc' \in NavPcs) =>
            (pc = "calibrating" /\ consecutive_misses' = 0)]_vars

\* C29 witness: calibration has just succeeded on a loaded target.
C29_Witness ==
    /\ tick = "calib" /\ pc = "navigating" /\ target_des = 0
    /\ consecutive_misses = 0 /\ ~is_moving

CameraOps == {"align_camera", "moveRel"}

\* C30: until calibration has succeeded the forward key is not pressed and
\* the only commands are camera movements; a run that ends by calibration
\* failure, or by cancellation during calibration, never pressed it.
C30_NoForwardBeforeCalibrated ==
    /\ [](pc \in {"start", "calibrating"} =>
            /\ "w" \notin keys_down /\ ~is_moving
            /\ \A i \in 1..Len(cmds) : cmds[i].op \in CameraOps)
    /\ [](tick = "calib" => \A i \in 1..Len(cmds) : cmds[i].op \in CameraOps)
    /\ []((cause = "calibration_failed" \/ "calibration_failed" \in reported) =>
            ("w" \notin keys_down /\ ~is_moving))
    /\ [][("w" \notin keys_down /\ "w" \in keys_down') =>
            (pc = "navigating" /\ tick' = "nav")]_vars
    /\ [][(~is_moving /\ is_moving') =>
            (pc = "navigating" /\ tick' = "nav")]_vars

\* C30 witness: a run cancelled during calibration after search rotations.
C30_Witness ==
    /\ pc = "returned" /\ cause = "cancelled"
    /\ "calibration_failed" \in reported /\ rotations = 2
    /\ "w" \notin keys_down

\* C27: at most one worker thread is alive at any time.
C27_SingleWorker ==
    Cardinality({t \in Threads : Alive(t)}) <= 1

\* Nothing is left to run but the user's input: some worker was started, no
\* worker is alive, no callback is scheduled and no call is in progress.
Quiescent ==
    /\ thread # 0
    /\ \A t \in Threads : ~Alive(t)
    /\ after_pending = 0
    /\ \A c \in Callers : caller[c] = "idle"

\* C28: when the worker thread has ended and everything it left scheduled
\* has run, the GUI is back in the stopped state (is_running is False and
\* the start button is enabled); and is_running is never False while a
\* worker thread is alive.
C28_GuiReturnsToStopped ==
    /\ Quiescent => (~is_running /\ start_btn = "normal")
    /\ \A t \in Threads : Alive(t) => is_running
====
